---- MODULE Spec2Model ----
(***************************************************************************)
(* Function-calling round trips and stream consumption of the Incredible   *)
(* API cookbook examples.                                                  *)
(*                                                                         *)
(* One example script is modelled per behaviour: Init picks the script     *)
(* (prog), the remote completion endpoint is a stub that answers each      *)
(* request with a response (or event-stream line) drawn from a small set,  *)
(* and every loop iteration / request handler of the script is one action. *)
(* The dungeon master's game loop runs its script once per turn.           *)
(***************************************************************************)
EXTENDS Integers, Sequences, FiniteSets, TLC

VARIABLES
    prog,                  \* which example script runs
    pc,                    \* position of the script: "start", "loop", "done", ...
    requests,              \* number of requests submitted to the endpoint
    offered,               \* number of invocations the responses contained
    sent,                  \* "messages" of the most recent request
    prevSent,              \* "messages" of the request before it
    lastResp,              \* the endpoint's most recent response
    firstResp,             \* the endpoint's first response
    switched,              \* the stub has changed its answer
    output,                \* the status lines printed so far
    conversation_history,  \* 4_advanced_workflow.py: the transcript
    step_count,            \* 4_advanced_workflow.py: loop counter
    result,                \* 7_content_creator.py: the response being processed
    iteration,             \* 7_content_creator.py: loop counter
    function_results,      \* 7_content_creator.py: dict name -> result; others: list
    search_count,          \* 7_content_creator.py
    searched,              \* 7_content_creator.py: executions of search_web
    required_functions,    \* 7_content_creator.py: names whose flag is True
    rounds,                \* iterations in which local functions were dispatched
    dispatched,            \* total number of local dispatches
    lastReturned,          \* values returned by the dispatches of the latest round
    allCalls,              \* every response so far asked for another function call
    failure,               \* [requests, dispatched] at the first failed follow-up
    messages_history,      \* two-request scripts: the messages of the second request
    GAME_STATE,            \* 6_ai_dungeon_master.py: the module-level game state
    turn_count,            \* 6_ai_dungeon_master.py: turns of the game loop
    full_response,         \* streaming scripts: the text assembled so far
    lines_read,            \* streaming scripts: lines taken from the stream
    nextFragment,          \* the stream: index of the next text fragment
    sentinel,              \* the stream: the line `data: [DONE]` has arrived
    atSentinel,            \* full_response when that line arrived
    received,              \* the fragments that arrived before that line
    query_index,           \* email-automation: index of the next query of `queries`
    emails,                \* email-automation: emails of the current search still to process
    processed_count,       \* email-automation: emails processed so far
    responses,             \* the mail service: auto-responses sent, per email id
    rows                   \* the spreadsheet: rows appended, per email id

vars == <<prog, pc, requests, offered, sent, prevSent, lastResp, firstResp, switched,
          output,
          conversation_history, step_count, result, iteration,
          function_results, search_count, searched, required_functions, rounds,
          dispatched, lastReturned, allCalls, failure, messages_history,
          GAME_STATE, turn_count, full_response, lines_read, nextFragment,
          sentinel, atSentinel, received,
          query_index, emails, processed_count, responses, rows>>

emailVars == <<query_index, emails, processed_count, responses, rows>>

streamVars == <<full_response, lines_read, nextFragment, sentinel, atSentinel,
                received>>

(***************************************************************************)
(* Bounds of the model.                                                    *)
(***************************************************************************)
MaxCalls == 2      \* invocations per function_call item served by the stub
MaxTurns == 2      \* turns of the dungeon master's game loop
MaxLines == 4      \* lines of one event stream

(***************************************************************************)
(* Program constants.                                                      *)
(***************************************************************************)
max_steps == 10
max_iterations == 10
SearchLimit == 2

(***************************************************************************)
(* Python values.                                                          *)
(***************************************************************************)
NoResponse == [status |-> 0, body |-> "none", items |-> <<>>]
NoFailure == [requests |-> 0 - 1, dispatched |-> 0 - 1]

Text(words) == [null |-> FALSE, words |-> words]
NullContent == [null |-> TRUE, words |-> <<>>]

UserMessage == [role |-> "user", content |-> Text(<<"request">>)]
Assistant(content) == [role |-> "assistant", content |-> content]
Invocation(name, input) == [name |-> name, input |-> input]
FunctionCall(id, calls) ==
    [type |-> "function_call", function_call_id |-> id, function_calls |-> calls]
FunctionCallNoId(calls) == [type |-> "function_call", function_calls |-> calls]

\* dict.get(key) for the string-valued keys 'type' and 'role'
Get(item, key) == IF key \in DOMAIN item THEN item[key] ELSE "None"

\* str.lower() on the words of a text
Lower(w) ==
    CASE w = "Complete" -> "complete"
      [] w = "Finished" -> "finished"
      [] w = "Incomplete" -> "incomplete"
      [] OTHER -> w

\* `needle in word` for the needles the scripts look for
HasSubstring(w, needle) ==
    \/ w = needle
    \/ needle = "complete" /\ w = "incomplete"

\* `needle in text` (substring search over the whole text)
Contains(words, needle) == \E i \in 1..Len(words) : HasSubstring(words[i], needle)

LowerText(words) == [i \in 1..Len(words) |-> Lower(words[i])]

(***************************************************************************)
(* The stubbed endpoint: the responses it can give.                        *)
(***************************************************************************)
Ok(items) == [status |-> 200, body |-> "ok", items |-> items]
NoResultBody == [status |-> 200, body |-> "noresult", items |-> <<>>]
HttpError == [status |-> 500, body |-> "none", items |-> <<>>]
NetworkError == [status |-> 0, body |-> "none", items |-> <<>>]

Programs == {"workflow", "creator", "stock", "dungeon", "calculator", "tools"}
LoopPrograms == {"workflow", "creator"}

\* The local functions each script dispatches to.
KnownFunctions(p) ==
    CASE p = "workflow" -> {"check_calendar_availability", "create_calendar_event",
                            "send_meeting_invitation", "create_follow_up_tasks",
                            "log_workflow_completion"}
      [] p = "creator" -> {"search_web", "create_file", "append_to_file",
                           "read_file_content", "count_words",
                           "format_as_markdown", "get_current_time"}
      [] p = "stock" -> {"get_stock_data", "calculate_technical_indicators",
                         "compare_stocks"}
      [] p = "dungeon" -> {"roll_dice", "manage_player_stats", "manage_inventory",
                           "combat_system", "generate_encounter",
                           "save_game_state", "load_game_state"}
      [] p = "calculator" -> {"calculate_sum"}
      [] OTHER -> {"calculate_operation", "get_weather_info", "get_current_time"}

\* Inputs: "a" and "b" match the function's signature, "bad" does not.
BadInput == "bad"

\* The invocations the stub asks for, per script.
Cycle(p) ==
    CASE p = "workflow" ->
           << Invocation("check_calendar_availability", "a"),
              Invocation("check_calendar_availability", "b"),
              Invocation("no_such_function", "a"),
              Invocation("check_calendar_availability", BadInput),
              Invocation("log_workflow_completion", "a"),
              Invocation("log_workflow_completion", BadInput) >>
      [] p = "creator" ->
           << Invocation("search_web", "a"),
              Invocation("search_web", "b"),
              Invocation("create_file", BadInput),
              Invocation("create_file", "a"),
              Invocation("no_such_function", "a") >>
      [] p = "stock" ->
           << Invocation("get_stock_data", "a"),
              Invocation("get_stock_data", "b"),
              Invocation("no_such_function", "a"),
              Invocation("compare_stocks", BadInput) >>
      [] p = "dungeon" ->
           << Invocation("roll_dice", "a"),
              Invocation("roll_dice", "b"),
              Invocation("no_such_function", "a"),
              Invocation("manage_inventory", BadInput),
              Invocation("manage_inventory", "a"),
              Invocation("manage_inventory", "b") >>
      [] p = "calculator" ->
           << Invocation("calculate_sum", "a"),
              Invocation("no_such_function", "a"),
              Invocation("calculate_sum", BadInput) >>
      [] OTHER ->
           << Invocation("get_weather_info", "a"),
              Invocation("no_such_function", "a"),
              Invocation("calculate_operation", BadInput) >>

\* k consecutive invocations of the cycle, starting at the j-th
Window(c, j, k) == [i \in 1..k |-> c[((j + i - 2) % Len(c)) + 1]]

CallItems(p) ==
    {FunctionCall(1, <<>>)} \cup
    {FunctionCall(1 + (j % 2), Window(Cycle(p), j, k)) :
        j \in 1..Len(Cycle(p)), k \in 1..MaxCalls}

NoIdItems(p) == {FunctionCallNoId(Window(Cycle(p), 1, k)) : k \in 1..MaxCalls}

NoCallsItem == [type |-> "function_call", function_call_id |-> 1]

PlainText == Text(<<"Meeting", "scheduled">>)
Texts == {PlainText, Text(<<"Workflow", "Complete">>), NullContent}

\* Malformed bodies served to the workflow: an invocation without 'name' or
\* without 'input' (first or second of the item), and a function_call item
\* without id ahead of a well-formed one.
NoName(input) == [input |-> input]
NoInput(name) == [name |-> name]
MalformedCalls(p) ==
    { <<NoName("a")>>, <<NoInput(Cycle(p)[1].name)>>, <<Cycle(p)[1], NoName("a")>> }
MalformedResponses(p) ==
    IF p = "workflow"
    THEN {Ok(<<FunctionCall(1, calls)>>) : calls \in MalformedCalls(p)}
         \cup {Ok(<<FunctionCallNoId(Window(Cycle(p), 1, 1)),
                    FunctionCall(2, Window(Cycle(p), 2, 1))>>)}
    ELSE {}

Responses(p) ==
    {Ok(<<f>>) : f \in CallItems(p) \cup NoIdItems(p) \cup {NoCallsItem}}
    \cup MalformedResponses(p)
    \cup {Ok(<<Assistant(PlainText), FunctionCall(2, Window(Cycle(p), 1, MaxCalls))>>),
          Ok(<<Assistant(PlainText), FunctionCall(1, <<>>)>>),
          Ok(<<FunctionCall(2, Window(Cycle(p), 2, MaxCalls)), Assistant(PlainText)>>),
          Ok(<<FunctionCall(1, Window(Cycle(p), 1, 1)),
               FunctionCall(2, Window(Cycle(p), 2, 1))>>)}
    \cup {Ok(<<Assistant(t)>>) : t \in Texts}
    \cup {Ok(<<>>), NoResultBody, HttpError, NetworkError}

\* The stub answers r to the next request. It is a two-phase stub: it keeps
\* answering what it answered last, and changes its answer once per run, at
\* any request.
Changes(r) == requests > 0 /\ r # lastResp
StubAnswers(r) ==
    /\ r \in Responses(prog)
    /\ Changes(r) => ~switched

(***************************************************************************)
(* Parsing a response body (the `for item in response_items` loops).       *)
(***************************************************************************)
NoItem == [none |-> TRUE]

IsFunctionCall(item) == Get(item, "type") = "function_call"
IsAssistant(item) == ~IsFunctionCall(item) /\ Get(item, "role") = "assistant"

MaxOf(S) == CHOOSE m \in S : \A n \in S : n <= m

\* function_call_item: the last item whose type is 'function_call'
LastFunctionCall(items) ==
    LET S == {i \in 1..Len(items) : IsFunctionCall(items[i])}
    IN  IF S = {} THEN NoItem ELSE items[MaxOf(S)]

\* assistant_message: the last other item whose role is 'assistant'
LastAssistant(items) ==
    LET S == {i \in 1..Len(items) : IsAssistant(items[i])}
    IN  IF S = {} THEN NoItem ELSE items[MaxOf(S)]

FunctionCallResult(id, results) ==
    [type |-> "function_call_result", function_call_id |-> id,
     function_call_results |-> results]

(***************************************************************************)
(* 4_advanced_workflow.py                                                  *)
(***************************************************************************)
\* What a local function returns on the input (its effects are not modelled).
Value(name, input) == [value |-> <<name, input>>]

execute_workflow_function(function_name, arguments) ==
    IF function_name \in KnownFunctions("workflow")
    THEN IF arguments = BadInput
         THEN [error |-> <<"Function execution failed", function_name>>]
         ELSE Value(function_name, arguments)
    ELSE [error |-> <<"Unknown function", function_name>>]

\* lines 337-349: what one dispatch round appends to the transcript
WorkflowAppendNoResult(history, assistant_message, function_call_item, function_result) ==
    (IF assistant_message # NoItem THEN Append(history, assistant_message) ELSE history)
    \o << function_call_item >>

WorkflowAppendItemFirst(history, assistant_message, function_call_item, function_result) ==
    << function_call_item >>
    \o (IF assistant_message # NoItem THEN <<assistant_message>> ELSE <<>>)
    \o history
    \o << FunctionCallResult(function_call_item.function_call_id, <<function_result>>) >>

WorkflowAppend(history, assistant_message, function_call_item, function_result) ==
    (IF assistant_message # NoItem THEN Append(history, assistant_message) ELSE history)
    \o << function_call_item,
          FunctionCallResult(function_call_item.function_call_id, <<function_result>>) >>

\* The assistant text ends the workflow (line 366).
SaysComplete(content) ==
    \/ Contains(LowerText(content.words), "complete")
    \/ Contains(LowerText(content.words), "finished")

\* One pass through the body of the while loop (lines 296-375) on response r:
\* the new transcript, whether the loop is left, what is printed and what
\* was dispatched.
StepResult(history, brk, out, returned) ==
    [history |-> history, brk |-> brk, out |-> out, returned |-> returned]

\* lines 351-354: `if function_name == "log_workflow_completion": break`
IsCompletionOnSuccess(function_name, function_result) ==
    function_name = "log_workflow_completion" /\ "error" \notin DOMAIN function_result
IsCompletion(function_name, function_result) ==
    function_name = "log_workflow_completion"

\* line 326: `if len(function_calls) > 0` has no else branch
NoInvocationAppends(history, assistant_message, item) ==
    StepResult(
        (IF assistant_message # NoItem THEN Append(history, assistant_message)
         ELSE history) \o <<item>>,
        FALSE, {}, <<>>)
NoInvocation(history, assistant_message, item) == StepResult(history, FALSE, {}, <<>>)

WorkflowCall(history, assistant_message, item) ==
    IF ~({"function_call_id", "function_calls"} \subseteq DOMAIN item)
    THEN StepResult(history, TRUE, {"Error in step"}, <<>>)
    ELSE IF Len(item.function_calls) > 0
         THEN LET function_call == item.function_calls[1]
              IN  IF ~({"name", "input"} \subseteq DOMAIN function_call)
                  THEN StepResult(history, TRUE, {"Error in step"}, <<>>)
                  ELSE LET function_result ==
                               execute_workflow_function(function_call.name,
                                                         function_call.input)
                           done == IsCompletion(function_call.name, function_result)
                       IN  StepResult(
                               WorkflowAppend(history, assistant_message, item,
                                              function_result),
                               done,
                               IF done THEN {"Workflow completed!"} ELSE {},
                               <<function_result>>)
         ELSE NoInvocation(history, assistant_message, item)

WorkflowText(history, assistant_message) ==
    IF assistant_message # NoItem
    THEN LET content == assistant_message.content
             appended == Append(history, assistant_message)
         IN  IF content.null
             THEN StepResult(appended, TRUE, {"Error in step"}, <<>>)
             ELSE IF SaysComplete(content)
                  THEN StepResult(appended, TRUE,
                                  {"Workflow completed by AI response!"}, <<>>)
                  ELSE StepResult(appended, FALSE, {}, <<>>)
    ELSE StepResult(history, TRUE,
                    {"No function call or assistant response found"}, <<>>)

\* lines 304-306: a status other than 200 is printed and the loop is left
ApiFailureContinues(history) == StepResult(history, FALSE, {"API Error"}, <<>>)
ApiFailure(history) == StepResult(history, TRUE, {"API Error"}, <<>>)

WorkflowBody(history, r) ==
    IF r.status = 0 THEN StepResult(history, TRUE, {"Error in step"}, <<>>)
    ELSE IF r.status # 200 THEN ApiFailure(history)
    ELSE IF r.body # "ok" THEN StepResult(history, TRUE, {"Error in step"}, <<>>)
    ELSE LET function_call_item == LastFunctionCall(r.items)
             assistant_message == LastAssistant(r.items)
         IN  IF function_call_item # NoItem
             THEN WorkflowCall(history, assistant_message, function_call_item)
             ELSE WorkflowText(history, assistant_message)

\* The response asks for another function call: it is well-formed, has a
\* function_call item, and every such item has an id and at least one
\* invocation, none of them log_workflow_completion.
AsksAnotherCall(r) ==
    /\ r.status = 200 /\ r.body = "ok"
    /\ \E i \in 1..Len(r.items) : IsFunctionCall(r.items[i])
    /\ \A i \in 1..Len(r.items) :
          IsFunctionCall(r.items[i]) =>
             /\ {"function_call_id", "function_calls"} \subseteq DOMAIN r.items[i]
             /\ Len(r.items[i].function_calls) > 0
             /\ \A c \in 1..Len(r.items[i].function_calls) :
                   /\ {"name", "input"} \subseteq DOMAIN r.items[i].function_calls[c]
                   /\ r.items[i].function_calls[c].name # "log_workflow_completion"

\* The number of invocations a response contains.
RECURSIVE Invocations(_, _)
Invocations(items, i) ==
    IF i > Len(items) THEN 0
    ELSE (IF IsFunctionCall(items[i]) /\ "function_calls" \in DOMAIN items[i]
          THEN Len(items[i].function_calls) ELSE 0)
         + Invocations(items, i + 1)

\* The endpoint answered r to a request with the given messages.
Exchange(messages, r) ==
    /\ requests' = requests + 1
    /\ offered' = offered + Invocations(r.items, 1)
    /\ sent' = messages
    /\ prevSent' = sent
    /\ lastResp' = r
    /\ firstResp' = IF requests = 0 THEN r ELSE firstResp
    /\ switched' = (switched \/ Changes(r))
    /\ allCalls' = (allCalls /\ AsksAnotherCall(r))

\* line 282: `while step_count < max_steps`
WorkflowContinuesOffByOne(steps) == steps <= max_steps
WorkflowContinues(steps) == steps < max_steps

\* One iteration of the while loop (lines 282-375).
WorkflowStep(r) ==
    /\ prog = "workflow" /\ pc = "loop"
    /\ WorkflowContinues(step_count)
    /\ StubAnswers(r)
    /\ LET res == WorkflowBody(conversation_history, r)
       IN  /\ step_count' = step_count + 1
           /\ Exchange(conversation_history, r)
           /\ conversation_history' = res.history
           /\ pc' = IF res.brk THEN "break" ELSE "loop"
           /\ output' = output \cup res.out
           /\ lastReturned' = res.returned
           /\ rounds' = rounds + (IF Len(res.returned) > 0 THEN 1 ELSE 0)
           /\ dispatched' = dispatched + Len(res.returned)
    /\ UNCHANGED <<prog, emailVars, streamVars, GAME_STATE, turn_count,
                   result, iteration, function_results, search_count, searched,
                   required_functions, failure, messages_history>>

\* After the loop (lines 377-383): the summary.
WorkflowStatus(steps) == IF steps < max_steps THEN "Completed" ELSE "Max steps reached"

WorkflowSummary ==
    /\ prog = "workflow"
    /\ pc = "break" \/ (pc = "loop" /\ ~WorkflowContinues(step_count))
    /\ output' = output \cup {WorkflowStatus(step_count)}
    /\ pc' = "done"
    /\ UNCHANGED <<prog, emailVars, streamVars, GAME_STATE, turn_count,
                   requests, offered, sent, prevSent, lastResp, firstResp, switched,
                   conversation_history, step_count, result, iteration,
                   function_results, search_count, searched, required_functions, rounds,
                   dispatched, lastReturned, allCalls, failure, messages_history>>

(***************************************************************************)
(* 7_content_creator.py                                                    *)
(***************************************************************************)
\* function_results[func_name] = result_data
SetKey(dict, key, value) ==
    [k \in (DOMAIN dict) \cup {key} |-> IF k = key THEN value ELSE dict[k]]

\* function_results.get(name, {})
EmptyDict == [empty |-> TRUE]
GetKey(dict, key) == IF key \in DOMAIN dict THEN dict[key] ELSE EmptyDict

ResearchComplete == [message |-> "Research phase complete"]
Raised(name) == [error |-> <<"exception", name>>]

\* The state a dispatch reads and writes, and the values returned so far.
DispatchState(count, results, required, returned, nsearched) ==
    [search_count |-> count, searched |-> nsearched, function_results |-> results,
     required_functions |-> required, returned |-> returned]

\* line 437: `if search_count > 2`
SearchLimitReachedLate(count) == count > SearchLimit + 1
SearchLimitReached(count) == count > SearchLimit

\* lines 434-469: the dispatch of one invocation
CreatorDispatch(st, func_call) ==
    LET func_name == func_call.name
        func_args == func_call.input
        count == IF func_name = "search_web"
                 THEN st.search_count + 1 ELSE st.search_count
        result_data ==
            IF func_name = "search_web" /\ SearchLimitReached(count)
            THEN ResearchComplete
            ELSE IF func_name \in KnownFunctions("creator")
                 THEN IF func_args = BadInput THEN Raised(func_name)
                      ELSE Value(func_name, func_args)
                 ELSE [error |-> <<"Unknown function", func_name>>]
        required ==
            IF /\ func_name \in {"create_file", "count_words", "get_current_time"}
               /\ func_args # BadInput
            THEN st.required_functions \cup {func_name}
            ELSE st.required_functions
        nsearched ==
            IF func_name = "search_web" /\ ~SearchLimitReached(count)
            THEN st.searched + 1 ELSE st.searched
    IN  DispatchState(count, SetKey(st.function_results, func_name, result_data),
                      required, Append(st.returned, result_data), nsearched)

\* lines 426-469: `for func_call in item["function_calls"]`
RECURSIVE CreatorDispatchAll(_, _, _)
CreatorDispatchAll(st, calls, i) ==
    IF i > Len(calls) THEN st
    ELSE CreatorDispatchAll(CreatorDispatch(st, calls[i]), calls, i + 1)

\* line 478: the results sent back, looked up by function name
ResultsForApi(results, calls) ==
    [i \in 1..Len(calls) |-> GetKey(results, calls[i].name)]

\* lines 421-536: `for item in result["result"]["response"]`, up to the item
\* whose results are sent back.  returned holds every value returned in this
\* pass, itemReturned those of the item sent back.
ItemsResult(st, has, request, item, itemReturned) ==
    [st |-> st, has_function_calls |-> has, request |-> request, item |-> item,
     itemReturned |-> itemReturned]

RECURSIVE CreatorItems(_, _, _, _)
CreatorItems(st, has, items, i) ==
    IF i > Len(items) THEN ItemsResult(st, has, FALSE, NoItem, <<>>)
    ELSE LET item == items[i]
         IN  IF IsFunctionCall(item) /\ "function_calls" \in DOMAIN item
             THEN LET before == Len(st.returned)
                      after == CreatorDispatchAll(st, item.function_calls, 1)
                  IN  IF "function_call_id" \in DOMAIN item
                      THEN ItemsResult(after, TRUE, TRUE, item,
                                       SubSeq(after.returned, before + 1,
                                              Len(after.returned)))
                      ELSE CreatorItems(after, TRUE, items, i + 1)
             ELSE CreatorItems(st, has, items, i + 1)

WellFormed(res) == res.status = 200 /\ res.body = "ok"

CreatorPass(st, res) ==
    IF WellFormed(res) THEN CreatorItems(st, FALSE, res.items, 1)
    ELSE ItemsResult(st, FALSE, FALSE, NoItem, <<>>)

\* lines 480-492: the messages of the follow-up request
FollowUpMessages(item, results) ==
    << UserMessage, item,
       FunctionCallResult(item.function_call_id,
                          ResultsForApi(results, item.function_calls)) >>

\* lines 390-410: the first request
CreatorStart(r) ==
    /\ prog = "creator" /\ pc = "start"
    /\ StubAnswers(r)
    /\ Exchange(<<UserMessage>>, r)
    /\ IF r.status = 0
       THEN /\ pc' = "done" /\ output' = output \cup {"API Error"}
            /\ result' = result
       ELSE IF r.status # 200
       THEN /\ pc' = "done" /\ output' = output \cup {"HTTP Error"}
            /\ result' = result
       ELSE /\ pc' = "loop" /\ output' = output
            /\ result' = r
    /\ UNCHANGED <<prog, emailVars, streamVars, GAME_STATE, turn_count,
                   conversation_history, step_count, iteration,
                   function_results, search_count, searched, required_functions, rounds,
                   dispatched, lastReturned, failure, messages_history>>

\* line 416: `while iteration < max_iterations`
CreatorContinuesOffByOne(iter) == iter <= max_iterations
CreatorContinues(iter) == iter < max_iterations

\* One iteration of the while loop (lines 416-546); r is the answer to the
\* follow-up request, if the iteration sends one.
CreatorIteration(r) ==
    /\ prog = "creator" /\ pc = "loop"
    /\ CreatorContinues(iteration)
    /\ LET st == DispatchState(search_count, function_results,
                               required_functions, <<>>, searched)
           pass == CreatorPass(st, result)
       IN  /\ iteration' = iteration + 1
           /\ search_count' = pass.st.search_count
           /\ searched' = pass.st.searched
           /\ function_results' = pass.st.function_results
           /\ required_functions' = pass.st.required_functions
           /\ rounds' = rounds + (IF Len(pass.st.returned) > 0 THEN 1 ELSE 0)
           /\ dispatched' = dispatched + Len(pass.st.returned)
           /\ IF pass.request
              THEN /\ StubAnswers(r)
                   /\ Exchange(FollowUpMessages(pass.item, pass.st.function_results), r)
                   /\ lastReturned' = pass.itemReturned
                   /\ IF r.status = 0
                      THEN /\ pc' = "done" /\ output' = output \cup {"API Error"}
                           /\ result' = result /\ failure' = failure
                      ELSE IF r.status # 200
                      THEN /\ pc' = "loop"
                           /\ output' = output \cup {"Follow-up HTTP Error"}
                           /\ result' = result
                           /\ failure' = IF failure = NoFailure
                                         THEN [requests |-> requests',
                                               dispatched |-> dispatched']
                                         ELSE failure
                      ELSE /\ pc' = "loop" /\ output' = output
                           /\ result' = r /\ failure' = failure
              ELSE /\ r = lastResp
                   /\ pc' = IF pass.has_function_calls THEN "loop" ELSE "break"
                   /\ UNCHANGED <<requests, offered, sent, prevSent, lastResp,
                                  firstResp, switched,
                                  allCalls, output, result, lastReturned, failure>>
    /\ UNCHANGED <<prog, emailVars, streamVars, GAME_STATE, turn_count,
                   conversation_history, step_count, messages_history>>

\* lines 548-561: what is printed after the loop
CreatorReport(iter, res) ==
    (IF iter >= max_iterations THEN {"Reached maximum iterations"} ELSE {})
    \cup (IF WellFormed(res) /\ Len(res.items) > 0
          THEN IF Get(res.items[Len(res.items)], "role") = "assistant"
               THEN {"CONTENT CREATION PIPELINE COMPLETE"} ELSE {}
          ELSE {"CONTENT CREATION PIPELINE COMPLETE"})

CreatorFinish ==
    /\ prog = "creator"
    /\ pc = "break" \/ (pc = "loop" /\ ~CreatorContinues(iteration))
    /\ output' = output \cup CreatorReport(iteration, result)
    /\ pc' = "done"
    /\ UNCHANGED <<prog, emailVars, streamVars, GAME_STATE, turn_count,
                   requests, offered, sent, prevSent, lastResp, firstResp, switched,
                   conversation_history, step_count, result, iteration,
                   function_results, search_count, searched, required_functions, rounds,
                   dispatched, lastReturned, allCalls, failure, messages_history>>

(***************************************************************************)
(* The two-request scripts: 5_stock_analysis.py, 6_ai_dungeon_master.py,   *)
(* 1_simple_calculator.py, 2_multiple_tools.py                             *)
(***************************************************************************)
AllResults == {"stock", "dungeon"}     \* dispatch every invocation of the item
FirstOnly == {"calculator", "tools"}   \* dispatch function_calls[0] only

\* A call of a local function with **function_input (or function_input[key]):
\* it raises when the input does not match the signature.
LocalCall(p, name, input) ==
    IF name \in KnownFunctions(p)
    THEN IF input = BadInput
         THEN [raised |-> TRUE, value |-> Raised(name)]
         ELSE [raised |-> FALSE, value |-> Value(name, input)]
    ELSE [raised |-> FALSE, value |-> [str |-> <<"Unknown function", name>>]]

\* 6_ai_dungeon_master.py lines 63-83: GAME_STATE as the module defines it
\* (the player's inventory is the part the modelled functions read and write).
InitialGameState == [inventory |-> <<"Health Potion", "Rusty Sword">>]

\* `item in inventory` and inventory.remove(item): the first occurrence goes
Holds(inventory, item) == \E i \in 1..Len(inventory) : inventory[i] = item
Remove(inventory, item) ==
    LET first == CHOOSE i \in 1..Len(inventory) :
                    /\ inventory[i] = item
                    /\ \A j \in 1..(i - 1) : inventory[j] # item
    IN  SubSeq(inventory, 1, first - 1) \o SubSeq(inventory, first + 1, Len(inventory))

\* The inputs of manage_inventory: "a" is {action: remove, item: Health Potion},
\* "b" is {action: list}.
Called(raised, value, game) == [raised |-> raised, value |-> value, game |-> game]

\* 6_ai_dungeon_master.py lines 224-249
manage_inventory(game, input) ==
    IF input = "a"
    THEN IF Holds(game.inventory, "Health Potion")
         THEN Called(FALSE, [str |-> <<"Used", "Health Potion">>],
                     [game EXCEPT !.inventory = Remove(@, "Health Potion")])
         ELSE Called(FALSE, [str |-> <<"Don't have", "Health Potion">>], game)
    ELSE Called(FALSE, [list |-> game.inventory], game)

\* One local call of a two-request script p in game state `game` (the state
\* matters to the dungeon master's manage_inventory only; the numbers rolled
\* by roll_dice are not modelled).
GameCall(p, game, name, input) ==
    IF p = "dungeon" /\ name = "manage_inventory" /\ input # BadInput
    THEN manage_inventory(game, input)
    ELSE LET call == LocalCall(p, name, input)
         IN  Called(call.raised, call.value, game)

\* 5_stock_analysis.py lines 350-367, 6_ai_dungeon_master.py lines 623-648:
\* the results gathered until a call raises, and the game state left behind.
Gathered(results, raised, game) ==
    [results |-> results, raised |-> raised, game |-> game]

RECURSIVE ExecuteAll(_, _, _, _, _)
ExecuteAll(p, game, calls, i, results) ==
    IF i > Len(calls) THEN Gathered(results, FALSE, game)
    ELSE LET call == GameCall(p, game, calls[i].name, calls[i].input)
         IN  IF call.raised THEN Gathered(results, TRUE, game)
             ELSE ExecuteAll(p, call.game, calls, i + 1, Append(results, call.value))

\* The messages of the second request.
SecondMessagesOneResult(assistant_message, function_call_item, results) ==
    (IF assistant_message # NoItem THEN <<UserMessage, assistant_message>>
     ELSE <<UserMessage>>)
    \o << function_call_item,
          FunctionCallResult(function_call_item.function_call_id,
                             IF Len(results) > 1 THEN <<results[1]>> ELSE results) >>

SecondMessages(assistant_message, function_call_item, results) ==
    (IF assistant_message # NoItem THEN <<UserMessage, assistant_message>>
     ELSE <<UserMessage>>)
    \o << function_call_item,
          FunctionCallResult(function_call_item.function_call_id, results) >>

\* The outcome of handling the first response.
FirstResult(next, out, results, messages, ndispatched, game) ==
    [pc |-> next, out |-> out, results |-> results, messages |-> messages,
     dispatched |-> ndispatched, game |-> game]

\* What each script prints on an exception in the try block.
Caught(p) ==
    CASE p \in AllResults -> "Unexpected error"
      [] p = "calculator" -> "Response format error"
      [] OTHER -> "Error"

\* stock / dungeon: lines 343-382 / 616-663
HandleAll(p, game, assistant_message, item) ==
    IF ~({"function_call_id", "function_calls"} \subseteq DOMAIN item)
    THEN FirstResult("done", {Caught(p)}, <<>>, <<>>, 0, game)
    ELSE LET got == ExecuteAll(p, game, item.function_calls, 1, <<>>)
         IN  IF got.raised
             THEN FirstResult("done", {Caught(p)}, got.results, <<>>,
                              Len(got.results) + 1, got.game)
             ELSE FirstResult("second", {}, got.results,
                              SecondMessages(assistant_message, item, got.results),
                              Len(got.results), got.game)

\* calculator / tools: lines 126-166 / 213-259
HandleFirst(p, game, assistant_message, item) ==
    IF ~({"function_call_id", "function_calls"} \subseteq DOMAIN item)
    THEN FirstResult("done", {Caught(p)}, <<>>, <<>>, 0, game)
    ELSE IF Len(item.function_calls) > 0
    THEN LET function_call == item.function_calls[1]
         IN  IF function_call.name \in KnownFunctions(p)
             THEN LET call == LocalCall(p, function_call.name, function_call.input)
                  IN  IF call.raised
                      THEN FirstResult("done", {Caught(p)}, <<>>, <<>>, 1, game)
                      ELSE FirstResult("second", {}, <<call.value>>,
                                       SecondMessages(assistant_message, item,
                                                      <<call.value>>), 1, game)
             ELSE FirstResult("done", {"Unknown function"}, <<>>, <<>>, 0, game)
    ELSE FirstResult("done", {}, <<>>, <<>>, 0, game)

HandleResponse(p, game, r) ==
    IF r.status = 0
    THEN FirstResult("done", {IF p = "tools" THEN "Error" ELSE "API Error"},
                     <<>>, <<>>, 0, game)
    ELSE IF r.status # 200
    THEN FirstResult("done", {"API Error"}, <<>>, <<>>, 0, game)
    ELSE IF r.body # "ok" THEN FirstResult("done", {Caught(p)}, <<>>, <<>>, 0, game)
    ELSE LET function_call_item == LastFunctionCall(r.items)
             assistant_message == LastAssistant(r.items)
         IN  IF function_call_item # NoItem
             THEN IF p \in AllResults
                  THEN HandleAll(p, game, assistant_message, function_call_item)
                  ELSE HandleFirst(p, game, assistant_message, function_call_item)
             ELSE FirstResult("done", {"direct response"}, <<>>, <<>>, 0, game)

\* The first request and the handling of its response.
FirstRequest(r) ==
    /\ prog \in AllResults \cup FirstOnly /\ pc = "start"
    /\ StubAnswers(r)
    /\ Exchange(<<UserMessage>>, r)
    /\ LET res == HandleResponse(prog, GAME_STATE, r)
       IN  /\ pc' = res.pc
           /\ GAME_STATE' = res.game
           /\ output' = output \cup res.out
           /\ function_results' = res.results
           /\ messages_history' = res.messages
           /\ lastReturned' = res.results
           /\ dispatched' = dispatched + res.dispatched
           /\ rounds' = rounds + (IF res.dispatched > 0 THEN 1 ELSE 0)
    /\ UNCHANGED <<prog, emailVars, streamVars, turn_count,
                   conversation_history, step_count, result, iteration,
                   search_count, searched, required_functions, failure>>

\* The second request, carrying the function results.
SecondRequest(r) ==
    /\ prog \in AllResults \cup FirstOnly /\ pc = "second"
    /\ StubAnswers(r)
    /\ Exchange(messages_history, r)
    /\ pc' = "done"
    /\ output' = output \cup
          (IF r.status = 200 /\ r.body = "ok" THEN {"final response"}
           ELSE IF r.status = 200 THEN {Caught(prog)}
           ELSE {"API Error"})
    /\ UNCHANGED <<prog, emailVars, streamVars, GAME_STATE, turn_count,
                   conversation_history, step_count, result, iteration,
                   function_results, search_count, searched, required_functions, rounds,
                   dispatched, lastReturned, failure, messages_history>>

\* 6_ai_dungeon_master.py lines 683-704: what play_with_ai_dungeon_master
\* returns, the narrating assistant item or None (NoItem).
MinOf(S) == CHOOSE m \in S : \A n \in S : m <= n

FirstAssistant(items) ==
    LET S == {i \in 1..Len(items) : Get(items[i], "role") = "assistant"}
    IN  IF S = {} THEN NoItem ELSE items[MinOf(S)]

dm_response ==
    IF pc # "done" \/ ~WellFormed(lastResp) THEN NoItem
    ELSE IF requests = 2 THEN FirstAssistant(lastResp.items)
    ELSE IF LastFunctionCall(lastResp.items) = NoItem
         THEN LastAssistant(lastResp.items)
         ELSE NoItem

\* `if not ai_response: break` (line 773)
Truthy(message) == message # NoItem /\ ~message.content.null

\* 6_ai_dungeon_master.py lines 767-787: the game loop calls
\* play_with_ai_dungeon_master again for the player's next action; GAME_STATE
\* is the module global and is what the previous turn left.
NextTurn ==
    /\ prog = "dungeon" /\ pc = "done"
    /\ turn_count < MaxTurns
    /\ Truthy(dm_response)
    /\ turn_count' = turn_count + 1
    /\ pc' = "start"
    /\ requests' = 0 /\ offered' = 0 /\ sent' = <<>> /\ prevSent' = <<>>
    /\ lastResp' = NoResponse /\ firstResp' = NoResponse /\ switched' = FALSE
    /\ output' = {} /\ function_results' = <<>> /\ messages_history' = <<>>
    /\ rounds' = 0 /\ dispatched' = 0 /\ lastReturned' = <<>> /\ allCalls' = TRUE
    /\ UNCHANGED <<prog, emailVars, streamVars, GAME_STATE, conversation_history, step_count, result,
                   iteration, search_count, searched, required_functions, failure>>

(***************************************************************************)
(* The streaming scripts: 2_streaming_chat.py (streaming_chat_example,     *)
(* compare_streaming_vs_non_streaming) and 4_streaming_chat.py             *)
(* (get_streaming_response).  A string is a sequence of characters.        *)
(***************************************************************************)
StreamPrograms ==
    {"streaming_chat_example", "compare_streaming", "get_streaming_response"}
NestedOnly == {"get_streaming_response"}

\* Python values of a decoded JSON payload
PyStr(chars) == [type |-> "str", value |-> chars]
PyDict(fields) == [type |-> "dict", value |-> fields]

\* What follows 'data: ' on a line: JSON text (given by the value it decodes
\* to) or text json.loads rejects.  `[DONE]` is not JSON.
Json(value) == [valid |-> TRUE, value |-> value]
NotJson(chars) == [valid |-> FALSE, text |-> chars]

SSE(rest) == [prefix |-> "data: ", rest |-> rest]
CommentLine == [prefix |-> ": ", rest |-> NotJson(<<"p", "i", "n", "g">>)]
EmptyLine == [prefix |-> "", rest |-> NotJson(<<>>)]

DONE == <<"[", "D", "O", "N", "E", "]">>
Fragments == << <<"H", "e", "l">>, <<"l", "o">>, <<" ", "w", "o", "r", "l", "d">> >>

\* The two encodings of a fragment, {"content": "..."} and
\* {"content": {"type": "...", "content": "..."}}
StringChunk(chars) == SSE(Json(PyDict([content |-> PyStr(chars)])))
TaggedChunk(chars) ==
    SSE(Json(PyDict([content |->
        PyDict([type |-> PyStr(<<"c", "h", "u", "n", "k">>),
                content |-> PyStr(chars)])])))

DoneLine == SSE(NotJson(DONE))
DoneLinePadded == SSE(NotJson(DONE \o <<" ">>))

\* The lines the stream can deliver next: the next fragment of the text in
\* either encoding, or a line that carries no text.
FragmentLines(k) ==
    IF k <= Len(Fragments) THEN {StringChunk(Fragments[k]), TaggedChunk(Fragments[k])}
    ELSE {}
OtherLines ==
    {DoneLine, DoneLinePadded, StringChunk(DONE), TaggedChunk(<<>>),
     SSE(NotJson(<<"{", "o", "o", "p", "s">>)), CommentLine, EmptyLine}
Lines == OtherLines \cup UNION {FragmentLines(k) : k \in 1..Len(Fragments)}

\* str.strip() for blanks
RECURSIVE Strip(_)
Strip(chars) ==
    IF chars = <<>> THEN chars
    ELSE IF Head(chars) = " " THEN Strip(Tail(chars))
    ELSE IF chars[Len(chars)] = " " THEN Strip(SubSeq(chars, 1, Len(chars) - 1))
    ELSE chars

\* One pass of the for loop: the text assembled and whether the loop is left.
Consumed(full, brk) == [full_response |-> full, brk |-> brk]

\* 2_streaming_chat.py lines 111-141 (and 218-254)
ConsumeLine(full, line) ==
    IF line.prefix # "data: " THEN Consumed(full, FALSE)
    ELSE IF ~line.rest.valid THEN Consumed(full, FALSE)
    ELSE LET chunk_data == line.rest.value
         IN  IF chunk_data.type = "dict" /\ "content" \in DOMAIN chunk_data.value
             THEN LET inner_content == chunk_data.value.content
                  IN  IF inner_content = PyStr(DONE) THEN Consumed(full, TRUE)
                      ELSE IF inner_content.type = "dict"
                      THEN LET actual_content ==
                                   IF "content" \in DOMAIN inner_content.value
                                   THEN inner_content.value.content
                                   ELSE PyStr(<<>>)
                           IN  IF actual_content.type = "str"
                                  /\ actual_content.value # <<>>
                               THEN Consumed(full \o actual_content.value, FALSE)
                               ELSE Consumed(full, FALSE)
                      ELSE IF inner_content.type = "str"
                      THEN Consumed(full \o inner_content.value, FALSE)
                      ELSE Consumed(full, FALSE)
             ELSE Consumed(full, FALSE)

\* 4_streaming_chat.py lines 85-112
ConsumeNested(full, line) ==
    IF line = EmptyLine THEN Consumed(full, FALSE)
    ELSE IF line.prefix # "data: " THEN Consumed(full, FALSE)
    ELSE IF ~line.rest.valid
    THEN Consumed(full, Strip(line.rest.text) = DONE)
    ELSE LET chunk_data == line.rest.value
         IN  IF /\ "content" \in DOMAIN chunk_data.value
                /\ chunk_data.value.content.type = "dict"
                /\ "content" \in DOMAIN chunk_data.value.content.value
             THEN LET chunk_text == chunk_data.value.content.value.content
                  IN  IF chunk_text.value # <<>>
                      THEN Consumed(full \o chunk_text.value, FALSE)
                      ELSE Consumed(full, FALSE)
             ELSE Consumed(full, FALSE)

Consume(p, full, line) ==
    IF p \in NestedOnly THEN ConsumeNested(full, line) ELSE ConsumeLine(full, line)

\* The text fragment a line carries, in either encoding (none: <<>>).
IsFragment(line) == \E k \in 1..Len(Fragments) : line \in FragmentLines(k)
FragmentOf(line) ==
    IF IsFragment(line)
    THEN Fragments[CHOOSE k \in 1..Len(Fragments) : line \in FragmentLines(k)]
    ELSE <<>>

\* The line `data: [DONE]` that ends the stream.
IsSentinel(line) == line = DoneLine

scriptVars ==
    <<requests, offered, sent, prevSent, lastResp, firstResp, switched,
      conversation_history, step_count, result, iteration, function_results,
      search_count, searched, required_functions, rounds, dispatched, lastReturned,
      allCalls, failure, messages_history, GAME_STATE, turn_count>>

\* requests.post(..., stream=True); response.raise_for_status()
StreamOpen(ok) ==
    /\ prog \in StreamPrograms /\ pc = "start"
    /\ pc' = IF ok THEN "stream" ELSE "done"
    /\ output' = IF ok THEN output ELSE output \cup {"Error"}
    /\ UNCHANGED <<prog, emailVars, streamVars, scriptVars>>

\* One iteration of `for line in response.iter_lines()`.
StreamLine(line) ==
    /\ prog \in StreamPrograms /\ pc = "stream"
    /\ lines_read < MaxLines
    /\ line \in OtherLines \cup FragmentLines(nextFragment)
    /\ LET res == Consume(prog, full_response, line)
       IN  /\ full_response' = res.full_response
           /\ pc' = IF res.brk THEN "done" ELSE "stream"
    /\ lines_read' = lines_read + 1
    /\ nextFragment' = IF IsFragment(line) THEN nextFragment + 1 ELSE nextFragment
    /\ sentinel' = (sentinel \/ IsSentinel(line))
    /\ atSentinel' = IF ~sentinel /\ IsSentinel(line) THEN full_response
                     ELSE atSentinel
    /\ received' = IF sentinel THEN received ELSE received \o FragmentOf(line)
    /\ UNCHANGED <<prog, output, emailVars, scriptVars>>

\* The stream is exhausted: the for loop ends.
StreamEnd ==
    /\ prog \in StreamPrograms /\ pc = "stream"
    /\ pc' = "done"
    /\ UNCHANGED <<prog, output, emailVars, streamVars, scriptVars>>

(***************************************************************************)
(* email-automation/main.py: EmailAutomation.process_support_emails.       *)
(* The mail service is a stub: a search returns some of the unread emails  *)
(* of the mailbox, newest first; nothing in the script marks an email as   *)
(* read, so every query searches the same mailbox.                         *)
(***************************************************************************)
EmailPrograms == {"email_automation"}

\* The four search strings of `queries`.
queries ==
    << "is:unread (subject:support OR subject:help)",
       "is:unread (subject:demo OR subject:pricing OR subject:sales)",
       "is:unread to:support@company.com",
       "is:unread (inquiry OR question OR interested)" >>

\* The unread emails of the mailbox; a sender is a string of characters.
Ann == [id |-> 1, sender |-> <<"A", " ", "<", "a", "@", "x", ">">>]
Nobody == [id |-> 2, sender |-> <<"n", "o">>]
Mailbox == <<Ann, Nobody>>
EmailIds == {Mailbox[i].id : i \in 1..Len(Mailbox)}

\* The answers of gmail_search: sub-lists of the mailbox (shorter than
\* max_results); [] stands for a failed request too.
RECURSIVE SubList(_, _)
SubList(list, keep) ==
    IF list = <<>> THEN <<>>
    ELSE (IF Head(list).id \in keep THEN <<Head(list)>> ELSE <<>>)
             \o SubList(Tail(list), keep)
SearchResults == {SubList(Mailbox, keep) : keep \in SUBSET EmailIds}

\* c in s
HasChar(s, c) == \E i \in 1..Len(s) : s[i] = c
\* s.split(c)[0]
SplitFirst(s, c) ==
    IF HasChar(s, c)
    THEN SubSeq(s, 1, (CHOOSE i \in 1..Len(s) : s[i] = c /\ \A j \in 1..(i - 1) : s[j] # c) - 1)
    ELSE s
\* s.split(c)[1], for a string that contains c
SplitSecond(s, c) ==
    LET i == CHOOSE k \in 1..Len(s) : s[k] = c /\ \A j \in 1..(k - 1) : s[j] # c
    IN SplitFirst(SubSeq(s, i + 1, Len(s)), c)

\* The address the auto-response goes to.
sender_email(sender) ==
    IF HasChar(sender, "<") /\ HasChar(sender, ">")
    THEN SplitFirst(SplitSecond(sender, "<"), ">")
    ELSE sender

\* sender_email and '@' in sender_email
ValidSender(sender) ==
    sender_email(sender) # <<>> /\ HasChar(sender_email(sender), "@")

\* for query in queries: emails = self.search_emails(query, max_results=5)
SearchEmails(found) ==
    /\ prog \in EmailPrograms /\ pc = "start"
    /\ query_index <= Len(queries)
    /\ query_index' = query_index + 1
    /\ emails' = found
    /\ pc' = IF found = <<>> THEN "start" ELSE "process"
    /\ UNCHANGED <<prog, output, processed_count, responses, rows, streamVars, scriptVars>>

\* The body of `for email in emails`: the auto-response is sent to a valid
\* sender (send_email may fail), then the email is logged (log_to_sheets
\* swallows a failed request).
ProcessEmail(sent_ok, logged_ok) ==
    /\ prog \in EmailPrograms /\ pc = "process"
    /\ LET email == Head(emails)
       IN /\ responses' =
                 IF ValidSender(email.sender) /\ sent_ok
                 THEN [responses EXCEPT ![email.id] = @ + 1]
                 ELSE responses
          /\ rows' = IF logged_ok THEN [rows EXCEPT ![email.id] = @ + 1] ELSE rows
    /\ processed_count' = processed_count + 1
    /\ emails' = Tail(emails)
    /\ pc' = IF Tail(emails) = <<>> THEN "start" ELSE "process"
    /\ UNCHANGED <<prog, output, query_index, streamVars, scriptVars>>

\* return processed_count
ProcessingComplete ==
    /\ prog \in EmailPrograms /\ pc = "start"
    /\ query_index > Len(queries)
    /\ pc' = "done"
    /\ UNCHANGED <<prog, output, emailVars, streamVars, scriptVars>>

(***************************************************************************)
(* Specification.                                                          *)
(***************************************************************************)
Init ==
    /\ prog \in Programs \cup StreamPrograms \cup EmailPrograms
    /\ pc = (IF prog = "workflow" THEN "loop" ELSE "start")
    /\ requests = 0
    /\ offered = 0
    /\ sent = <<>>
    /\ prevSent = <<>>
    /\ lastResp = NoResponse
    /\ firstResp = NoResponse
    /\ switched = FALSE
    /\ output = {}
    /\ conversation_history = <<UserMessage>>
    /\ step_count = 0
    /\ result = NoResponse
    /\ iteration = 0
    /\ function_results = <<>>
    /\ search_count = 0
    /\ searched = 0
    /\ required_functions = {}
    /\ rounds = 0
    /\ dispatched = 0
    /\ lastReturned = <<>>
    /\ allCalls = TRUE
    /\ failure = NoFailure
    /\ messages_history = <<>>
    /\ GAME_STATE = InitialGameState
    /\ turn_count = 1
    /\ full_response = <<>>
    /\ lines_read = 0
    /\ nextFragment = 1
    /\ sentinel = FALSE
    /\ atSentinel = <<>>
    /\ received = <<>>
    /\ query_index = 1
    /\ emails = <<>>
    /\ processed_count = 0
    /\ responses = [id \in EmailIds |-> 0]
    /\ rows = [id \in EmailIds |-> 0]

Next ==
    \/ \E r \in Responses(prog) : WorkflowStep(r)
    \/ WorkflowSummary
    \/ \E r \in Responses(prog) : CreatorStart(r)
    \/ \E r \in Responses(prog) : CreatorIteration(r)
    \/ CreatorFinish
    \/ \E r \in Responses(prog) : FirstRequest(r)
    \/ \E r \in Responses(prog) : SecondRequest(r)
    \/ NextTurn
    \/ \E ok \in BOOLEAN : StreamOpen(ok)
    \/ \E line \in Lines : StreamLine(line)
    \/ StreamEnd
    \/ \E found \in SearchResults : SearchEmails(found)
    \/ \E sent_ok, logged_ok \in BOOLEAN : ProcessEmail(sent_ok, logged_ok)
    \/ ProcessingComplete

Spec == Init /\ [][Next]_vars

(***************************************************************************)
(* Properties.                                                             *)
(***************************************************************************)
IsResultMessage(m) == Get(m, "type") = "function_call_result"

\* m answers the function_call item c
Answers(m, c) ==
    /\ IsResultMessage(m)
    /\ m.function_call_id = c.function_call_id

\* Every function_call item of transcript t is immediately followed by
\* exactly one function_call_result with its id, and no result stands alone.
Paired(t) ==
    \A i \in 1..Len(t) :
       /\ IsFunctionCall(t[i]) =>
             /\ i < Len(t)
             /\ Answers(t[i + 1], t[i])
             /\ (i + 2 <= Len(t) => ~IsResultMessage(t[i + 2]))
       /\ IsResultMessage(t[i]) => i > 1 /\ IsFunctionCall(t[i - 1])

\* C1: every transcript run_advanced_workflow submits has each function_call
\* item immediately followed by exactly one function_call_result message with
\* the same function_call_id; no unanswered function_call item is submitted.
C1_NoDanglingCall == prog = "workflow" => Paired(sent)

C1_Witness ==
    /\ prog = "workflow" /\ requests >= 3
    /\ \E i \in 1..Len(sent) :
          IsFunctionCall(sent[i]) /\ sent[i].function_call_id = 2
    /\ \E i \in 1..Len(sent) :
          IsFunctionCall(sent[i]) /\ sent[i].function_call_id = 1

\* C2: in run_advanced_workflow every function_call item with k invocations
\* in the transcript is paired with a function_call_result of exactly k
\* results, the i-th being the result of dispatching the i-th invocation.
C2_OneResultPerInvocation ==
    prog = "workflow" =>
       \A i \in 1..Len(conversation_history) :
          IsFunctionCall(conversation_history[i]) =>
             LET calls == conversation_history[i].function_calls
             IN  /\ i < Len(conversation_history)
                 /\ IsResultMessage(conversation_history[i + 1])
                 /\ LET results == conversation_history[i + 1].function_call_results
                    IN  /\ Len(results) = Len(calls)
                        /\ \A j \in 1..Len(calls) :
                              results[j] =
                                 execute_workflow_function(calls[j].name, calls[j].input)

\* C3: in the content-creator loop the i-th entry of function_call_results
\* sent back is the value returned by dispatching the i-th invocation of the
\* item with its own input.
C3_ResultsPositional ==
    (prog = "creator" /\ Len(sent) = 3) =>
       sent[3].function_call_results = lastReturned

\* The response is a plain assistant text and nothing else asks for a call.
PlainTextOnly(r) ==
    /\ r.status = 200 /\ r.body = "ok"
    /\ LastFunctionCall(r.items) = NoItem
    /\ LastAssistant(r.items) # NoItem
    /\ ~LastAssistant(r.items).content.null

\* C4: in run_advanced_workflow, when the first response is a plain assistant
\* text with no function call, the run ends after exactly 1 request with that
\* text as the final answer, whatever the text contains.
C4_TextEndsRun ==
    (prog = "workflow" /\ requests > 0 /\ PlainTextOnly(firstResp)) =>
       /\ requests = 1
       /\ pc # "loop"
       /\ conversation_history = <<UserMessage, LastAssistant(firstResp.items)>>

\* The step budget of the running loop and the line that reports it.
Budget == IF prog = "workflow" THEN max_steps ELSE max_iterations
BudgetReported ==
    IF prog = "workflow" THEN "Max steps reached" \in output
    ELSE "Reached maximum iterations" \in output

\* C5: with step budget N and an endpoint that answers every request with
\* another function call, each loop performs exactly N dispatch rounds and
\* then stops reporting that the budget was reached; never an (N+1)-th round.
C5_BudgetExact ==
    prog \in LoopPrograms =>
       /\ rounds <= Budget
       /\ (pc = "done" /\ requests > 0 /\ allCalls) =>
              (rounds = Budget /\ BudgetReported)

C5_Witness ==
    /\ prog = "workflow" /\ pc = "done" /\ allCalls
    /\ rounds = max_steps /\ requests = max_steps

\* C6: in content-creator main, after a follow-up request returned a non-200
\* status no further request is submitted and no local function is dispatched.
C6_NoRetryAfterFailure ==
    (prog = "creator" /\ failure # NoFailure) =>
       /\ requests = failure.requests
       /\ dispatched = failure.dispatched

\* The parsed function_call item of r is well-formed.
CallsOf(r) ==
    LET item == LastFunctionCall(r.items)
    IN  IF /\ r.status = 200 /\ r.body = "ok" /\ item # NoItem
           /\ {"function_call_id", "function_calls"} \subseteq DOMAIN item
        THEN item.function_calls ELSE <<>>

\* C7: in analyze_stock_with_ai and play_with_ai_dungeon_master, when a
\* dispatched local function raises, an error result value takes that
\* invocation's place in function_call_results and the second request is
\* still submitted.
C7_RaiseNotFatal ==
    (prog \in AllResults /\ pc = "done") =>
       \A j \in 1..Len(CallsOf(firstResp)) :
          LocalCall(prog, CallsOf(firstResp)[j].name, CallsOf(firstResp)[j].input).raised
             => /\ requests = 2
                /\ IsResultMessage(sent[Len(sent)])
                /\ Len(sent[Len(sent)].function_call_results) = Len(CallsOf(firstResp))
                /\ "error" \in DOMAIN sent[Len(sent)].function_call_results[j]

\* C8: in simple_calculator_example and test_multiple_tools, when the function
\* call names a function that is not a local function, an unknown-function
\* result is returned to the model in a function_call_result message (a second
\* request is sent); the run does not stop at the unknown name.
C8_UnknownAnswered ==
    (prog \in FirstOnly /\ pc = "done" /\ Len(CallsOf(firstResp)) > 0
        /\ CallsOf(firstResp)[1].name \notin KnownFunctions(prog)) =>
       /\ requests = 2
       /\ IsResultMessage(sent[Len(sent)])
       /\ "Unknown function" \notin output

NameOf(call) == Get(call, "name")
UnknownError(name) == [error |-> <<"Unknown function", name>>]
IsUnknownError(v) == "error" \in DOMAIN v /\ v.error[1] = "Unknown function"

\* C9: in run_advanced_workflow and content-creator main, when an invocation
\* names a function no dispatch branch knows, its result is an error value
\* naming the unknown function, it is sent back in the function_call_result,
\* and the loop goes on to the next request.
C9_UnknownSurfaced ==
    /\ prog = "workflow" =>
          /\ \A i \in 1..Len(conversation_history) :
                IsFunctionCall(conversation_history[i]) =>
                   \A j \in 1..Len(conversation_history[i].function_calls) :
                      LET name == NameOf(conversation_history[i].function_calls[j])
                      IN  name \notin KnownFunctions("workflow") \cup {"None"} =>
                             /\ i < Len(conversation_history)
                             /\ IsResultMessage(conversation_history[i + 1])
                             /\ j <= Len(conversation_history[i + 1].function_call_results)
                             /\ conversation_history[i + 1].function_call_results[j]
                                   = UnknownError(name)
          /\ (Len(lastReturned) > 0 /\ IsUnknownError(lastReturned[1]))
                => pc = "loop"
    /\ (prog = "creator" /\ Len(sent) = 3) =>
          /\ \A j \in 1..Len(sent[2].function_calls) :
                LET name == sent[2].function_calls[j].name
                IN  name \notin KnownFunctions("creator") =>
                       sent[3].function_call_results[j] = UnknownError(name)
          /\ (\E j \in 1..Len(sent[2].function_calls) :
                 sent[2].function_calls[j].name \notin KnownFunctions("creator"))
                => "Unexpected error" \notin output

\* C10: in run_advanced_workflow and content-creator main, when a dispatched
\* local function raises, the error is captured as a result value with an
\* 'error' field, that value is submitted in the function_call_result of the
\* same call, and the loop continues with the next request.
C10_RaiseSurfaced ==
    /\ prog = "workflow" =>
          \A i \in 1..Len(conversation_history) :
             (IsFunctionCall(conversation_history[i])
                 /\ conversation_history[i].function_calls[1].input = BadInput
                 /\ conversation_history[i].function_calls[1].name
                       \in KnownFunctions("workflow")) =>
                /\ i < Len(conversation_history)
                /\ "error" \in DOMAIN
                      conversation_history[i + 1].function_call_results[1]
    /\ (prog = "creator" /\ Len(sent) = 3) =>
          \A j \in 1..Len(lastReturned) :
             lastReturned[j] = Raised(sent[2].function_calls[j].name) =>
                /\ "error" \in DOMAIN sent[3].function_call_results[j]
                /\ sent[3].function_call_results[j] = lastReturned[j]

\* C11: in the content creator every follow-up request carries the whole
\* transcript so far: the messages of the previous request are a prefix of the
\* messages of the next one, so every earlier function_call item and its
\* function_call_result stay in the transcript.
IsPrefix(s, t) == Len(s) <= Len(t) /\ SubSeq(t, 1, Len(s)) = s

C11_TranscriptAppendOnly ==
    (prog = "creator" /\ requests >= 2) => IsPrefix(prevSent, sent)

\* C14: in the workflow, a request that ends in a status other than 200 or
\* in a network exception ends the loop at once: nothing is dispatched for
\* it, the transcript stays as it was sent, and no request follows (requests
\* are only submitted at "loop").
TransportFailed == requests > 0 /\ lastResp.status # 200

C14_FailureExitsLoop ==
    (prog = "workflow" /\ TransportFailed) =>
        /\ pc \in {"break", "done"}
        /\ lastReturned = <<>>
        /\ conversation_history = sent

C14_Witness ==
    /\ prog = "workflow" /\ TransportFailed
    /\ lastResp.status = 500 /\ requests >= 2 /\ dispatched > 0
    /\ pc = "done"

\* C15: in the workflow, a request that fails with a transport error does not
\* consume a step: the step counter reported as "Total steps" counts the
\* requests that were answered with status 200 only.
C15_FailureConsumesNoStep ==
    (prog = "workflow" /\ TransportFailed) => step_count = requests - 1

\* C17: in the content creator a 200 response without result.response is a
\* failure: a run whose last processed response has that shape does not end
\* with the success summary.
C17_UnrecognizedShapeFails ==
    (prog = "creator" /\ pc = "done" /\ result = NoResultBody) =>
        "CONTENT CREATION PIPELINE COMPLETE" \notin output

\* C16: in the workflow, a 200 response with a malformed body (no
\* result.response, a function_call item without function_call_id or
\* function_calls, an invocation without name or input) ends the loop:
\* nothing is dispatched for it, the transcript stays as it was sent, and no
\* request follows.
MalformedItem(item) ==
    IsFunctionCall(item) /\
       \/ ~({"function_call_id", "function_calls"} \subseteq DOMAIN item)
       \/ /\ "function_calls" \in DOMAIN item
          /\ \E c \in 1..Len(item.function_calls) :
                ~({"name", "input"} \subseteq DOMAIN item.function_calls[c])

MalformedBody(r) ==
    r.status = 200 /\
       \/ r.body # "ok"
       \/ \E i \in 1..Len(r.items) : MalformedItem(r.items[i])

C16_MalformedAborts ==
    (prog = "workflow" /\ requests > 0 /\ MalformedBody(lastResp)) =>
        /\ pc \in {"break", "done"}
        /\ lastReturned = <<>>
        /\ conversation_history = sent

\* C18: in the stock analysis and the dungeon master, when every dispatched
\* function returns normally, the function_call_result sent on the second
\* request follows the function_call item, carries its function_call_id and
\* has exactly one result per invocation, the j-th being a value the j-th
\* invocation returns (in some game state, for the dungeon master).
GameStates == {InitialGameState, [inventory |-> <<"Rusty Sword">>]}
ValuesOf(p, call) == {GameCall(p, g, call.name, call.input).value : g \in GameStates}

C18_OneResultPerCallInOrder ==
    (prog \in AllResults /\ requests = 2) =>
        LET item == LastFunctionCall(firstResp.items)
            answer == sent[Len(sent)]
        IN  /\ sent[Len(sent) - 1] = item
            /\ IsResultMessage(answer)
            /\ answer.function_call_id = item.function_call_id
            /\ Len(answer.function_call_results) = Len(item.function_calls)
            /\ \A j \in 1..Len(item.function_calls) :
                   answer.function_call_results[j] \in ValuesOf(prog, item.function_calls[j])

C18_Witness ==
    /\ prog \in AllResults /\ requests = 2
    /\ Len(sent[Len(sent)].function_call_results) >= 2
    /\ sent[Len(sent)].function_call_results[1] # sent[Len(sent)].function_call_results[2]

\* C19: dispatch in the content creator is replayable: an invocation yields
\* the result value it yields when it is the first dispatch of a run, however
\* many invocations were dispatched before it.
FreshDispatch(call) ==
    CreatorDispatch(DispatchState(0, <<>>, {}, <<>>, 0), call).returned[1]

C19_DispatchReplayable ==
    (prog = "creator" /\ Len(sent) = 3) =>
        \A j \in 1..Len(lastReturned) :
           lastReturned[j] = FreshDispatch(sent[2].function_calls[j])

\* C20: successive runs of play_with_ai_dungeon_master share no mutable
\* state: the result values a run produces for a model response are those a
\* run in a fresh process produces for it, whatever earlier runs dispatched.
FreshResults(r) == HandleResponse("dungeon", InitialGameState, r).results

C20_RunsIndependent ==
    (prog = "dungeon" /\ requests > 0) => function_results = FreshResults(firstResp)

\* C12: in 2_streaming_chat.py consumption of the stream ends at the line
\* `data: [DONE]`: the loop is left there and no fragment arriving after it
\* is appended to the assembled response.
C12_StreamEndsAtDone ==
    (prog \in StreamPrograms \ NestedOnly /\ sentinel) =>
        /\ pc = "done"
        /\ full_response = atSentinel

\* C13: get_streaming_response returns the concatenation, in order, of the
\* fragments received before the [DONE] line, for both encodings of a
\* fragment: "Hel", "lo", " world", [DONE] yield "Hello world".
C13_ConcatenatesFragments ==
    (prog \in NestedOnly /\ pc = "done" /\ "Error" \notin output) =>
        full_response = received

\* C21: whatever the endpoint answers, the workflow loop runs at most
\* max_steps iterations and the content creator's loop at most max_iterations
\* iterations: the counters never pass the budget, at most one request is
\* submitted per iteration, and at the budget the loop is left.
C21_LoopsBounded ==
    /\ prog = "workflow" =>
          /\ step_count <= max_steps /\ requests <= step_count
          /\ (step_count = max_steps /\ pc = "loop") =>
                 ~ENABLED (\E r \in Responses(prog) : WorkflowStep(r))
    /\ prog = "creator" =>
          /\ iteration <= max_iterations /\ requests <= iteration + 1
          /\ (iteration = max_iterations /\ pc = "loop") =>
                 ~ENABLED (\E r \in Responses(prog) : CreatorIteration(r))

C21_Witness ==
    /\ prog = "creator" /\ pc = "done"
    /\ iteration = max_iterations /\ requests = max_iterations + 1
    /\ "Reached maximum iterations" \in output

\* C22: in the workflow a dispatch round only appends to the conversation
\* history: the history the request carried stays as its prefix, and what
\* the round adds is the assistant message (if the response had one), then
\* the function_call item, then its function_call_result.
Added == SubSeq(conversation_history, Len(sent) + 1, Len(conversation_history))

C22_RoundAppendsInOrder ==
    (prog = "workflow" /\ requests > 0) =>
        /\ IsPrefix(sent, conversation_history)
        /\ Len(lastReturned) > 0 =>
              LET item == LastFunctionCall(lastResp.items)
                  assistant == LastAssistant(lastResp.items)
                  n == Len(Added)
              IN  /\ n = IF assistant = NoItem THEN 2 ELSE 3
                  /\ assistant # NoItem => Added[1] = assistant
                  /\ Added[n - 1] = item
                  /\ IsResultMessage(Added[n])
                  /\ Added[n].function_call_id = item.function_call_id
                  /\ Added[n].function_call_results = lastReturned

C22_Witness ==
    /\ prog = "workflow" /\ rounds >= 2 /\ Len(lastReturned) > 0
    /\ LastAssistant(lastResp.items) # NoItem
    /\ Len(conversation_history) >= 6

\* C23: in streaming_chat_example the assembled full_response is the
\* concatenation, in arrival order, of the fragments received before the
\* line `data: [DONE]`, in either encoding; other lines contribute nothing.
C23_AssemblesFragments ==
    prog = "streaming_chat_example" => full_response = received

\* C24: in the content creator every invocation contained in a model
\* response is dispatched at most once during the run, also when its
\* function_call item has no function_call_id: there are never more
\* dispatches than invocations received.
C24_DispatchedAtMostOnce ==
    prog = "creator" => dispatched <= offered

\* C25: the workflow summary reports 'Max steps reached' exactly when the
\* loop ended because the step budget ran out without a completion signal,
\* and 'Completed' exactly when it ended on a completion signal
\* (log_workflow_completion dispatched, or a final assistant answer).
CompletionSignals == {"Workflow completed!", "Workflow completed by AI response!"}
Aborts == {"API Error", "Error in step", "No function call or assistant response found"}

C25_StatusMatchesExit ==
    (prog = "workflow" /\ pc = "done") =>
        /\ "Completed" \in output <=> output \cap CompletionSignals # {}
        /\ "Max steps reached" \in output <=>
               output \cap (CompletionSignals \cup Aborts) = {}

\* C26: the content creator prints 'Reached maximum iterations' only when
\* the loop stopped at the iteration bound with a function call still
\* unprocessed, not when the last response contained no function call.
HasCall(res) ==
    /\ WellFormed(res)
    /\ \E i \in 1..Len(res.items) :
          IsFunctionCall(res.items[i]) /\ "function_calls" \in DOMAIN res.items[i]

C26_WarningOnlyAtBound ==
    (prog = "creator" /\ pc = "done" /\ "Reached maximum iterations" \in output) =>
        HasCall(result)

\* C27: in the workflow, when the function_call item of the response has an
\* empty function_calls list, the conversation history is left as it was
\* sent, nothing is dispatched, one step of the budget is used, and the loop
\* goes on: the next request carries the same transcript.
EmptyCalls(r) ==
    /\ WellFormed(r)
    /\ LastFunctionCall(r.items) # NoItem
    /\ {"function_call_id", "function_calls"} \subseteq DOMAIN LastFunctionCall(r.items)
    /\ Len(LastFunctionCall(r.items).function_calls) = 0

C27_EmptyCallsFrame ==
    (prog = "workflow" /\ requests > 0 /\ EmptyCalls(lastResp)) =>
        /\ conversation_history = sent
        /\ lastReturned = <<>>
        /\ step_count = requests
        /\ pc # "break"
        /\ pc = "done" => step_count = max_steps
        /\ (requests >= 2 /\ ~switched) => sent = prevSent

C27_Witness ==
    /\ prog = "workflow" /\ EmptyCalls(lastResp)
    /\ LastAssistant(lastResp.items) # NoItem
    /\ requests >= 2 /\ ~switched /\ pc = "loop"
    /\ dispatched = 0 /\ conversation_history = <<UserMessage>>

\* C28: in the workflow, once log_workflow_completion has been dispatched,
\* whether it returned normally or an error value, the loop ends in that
\* step: no request and no dispatch follows.
CompletionDispatched ==
    /\ Len(lastReturned) > 0
    /\ LastFunctionCall(lastResp.items).function_calls[1].name = "log_workflow_completion"

C28_CompletionEndsLoop ==
    (prog = "workflow" /\ CompletionDispatched) =>
        /\ pc \in {"break", "done"}
        /\ "Workflow completed!" \in output
        /\ ~ENABLED (\E r \in Responses(prog) : WorkflowStep(r))

C28_Witness ==
    /\ prog = "workflow" /\ CompletionDispatched
    /\ "error" \in DOMAIN lastReturned[1]
    /\ requests >= 2 /\ step_count < max_steps /\ pc = "done"

\* C29: in the content creator the real search_web function is executed at
\* most 2 times per run, however many search_web invocations the model
\* requests; every later search_web invocation gets the fixed 'Research
\* phase complete' result and the search is not executed.
NextSearch(input) ==
    CreatorDispatch(DispatchState(search_count, function_results,
                                  required_functions, <<>>, searched),
                    Invocation("search_web", input))

C29_SearchLimit ==
    prog = "creator" =>
        /\ searched <= SearchLimit
        /\ searched = IF search_count < SearchLimit THEN search_count ELSE SearchLimit
        /\ search_count >= SearchLimit =>
              \A input \in {"a", "b", BadInput} :
                 /\ NextSearch(input).returned = <<ResearchComplete>>
                 /\ NextSearch(input).searched = searched

C29_Witness ==
    /\ prog = "creator" /\ search_count > SearchLimit + 1 /\ searched = SearchLimit
    /\ \E j \in 1..Len(lastReturned) : lastReturned[j] = ResearchComplete

\* C30: every email, identified by its id, is sent at most one auto-response
\* and logged at most once, also when several of the four queries return it.
C30_OneResponsePerEmail ==
    prog \in EmailPrograms =>
        \A id \in EmailIds : responses[id] <= 1 /\ rows[id] <= 1
====
